---------------------------- MODULE Spec2Model ----------------------------
(***************************************************************************)
(* GratifPanel: ingestion of the monthly CSV of the performance bonus      *)
(* (backend/ingestao.py) and its HTTP facade (backend/app.py).             *)
(*                                                                         *)
(* Data representation.                                                    *)
(*  - A text cell is a sequence of one-character strings.  A missing cell  *)
(*    is the tuple NaN (pandas NaN) or None (Python None); neither is a    *)
(*    text, because "NaN" and "None" are no characters.                    *)
(*  - A number is [nan, m, e]: the value m / 10^e with the trailing zeros  *)
(*    of the fraction removed; nan = TRUE is float NaN.  The binary        *)
(*    rounding of float64 is not modelled.                                 *)
(*  - A data frame is [colunas, linhas]; linhas is a sequence of blocks    *)
(*    [lin, n], a block standing for n consecutive equal rows lin.  It is  *)
(*    an encoding of the row sequence that keeps files longer than one     *)
(*    lote of TAMANHO_LOTE rows small.                                     *)
(*  - The table gratificacoes is a bag of rows, importacoes_log the        *)
(*    sequence of its records in insertion order.                          *)
(*  - A store call either succeeds or raises; a call that raises changes   *)
(*    nothing in the store.                                                *)
(*                                                                         *)
(* Not modelled: encoding detection and the parsing of the CSV bytes, the  *)
(* failures before the file is read (missing file, missing credentials,    *)
(* create_client), and the endpoints that only read the store (login,      *)
(* validar, historico, competencias).                                      *)
(***************************************************************************)
EXTENDS Integers, Sequences, FiniteSets, Bags, TLC

VARIABLES
    gratificacoes,    \* store table gratificacoes: bag of transformed rows
    importacoes_log,  \* store table importacoes_log: sequence of records
    relogio,          \* datetime.now(): a clock that ticks at each transformar
    pc,               \* pc[p]: position of import p in importar_csv / main
    req,              \* req[p]: the request (tipo, arquivo, usuario, substituir)
    df,               \* df[p]: the transformed data frame
    mes_ano,          \* mes_ano[p]: the competency extracted
    i,                \* i[p]: loop variable of inserir_em_lotes (0-based row)
    inseridos,        \* inseridos[p]
    erros,            \* erros[p]
    resp,             \* resp[p]: HTTP response / process exit of import p
    chamadas,         \* chamadas[p]: store calls issued by import p, in order
    respDel           \* last response of POST /api/delete-competencia

vars == <<gratificacoes, importacoes_log, relogio, pc, req, df, mes_ano, i,
          inseridos, erros, resp, chamadas, respDel>>

-----------------------------------------------------------------------------
(* Bounds of the model *)

\* longest VALOR text enumerated in the transformation specification
MaxTexto == 3
\* most rows of a file enumerated in the transformation specification
MaxLinhasT == 2
\* most rows of the data frame handed to inserir_em_lotes (SpecLotes)
MaxRegistros == 1001
\* most requests to POST /api/delete-competencia in one behaviour
MaxDeletes == 1

-----------------------------------------------------------------------------
(* Text *)

NaN == <<"NaN">>

\* Python None, what step 9 of transformar puts in place of NaN
None == <<"None">>

Max(a, b) == IF a >= b THEN a ELSE b
Min(a, b) == IF a <= b THEN a ELSE b

Digitos == {"0", "1", "2", "3", "4", "5", "6", "7", "8", "9"}

Espacos == {" ", "\t"}

\* the characters of the model in code-point order
Alfabeto ==
    <<"\t", " ", "$", ",", "-", ".", "/", "0", "1", "2", "3", "4", "5", "6",
      "7", "8", "9", "C", "D", "E", "H", "I", "N", "O", "R", "S", "x">>

Codigo(c) == CHOOSE k \in 1..Len(Alfabeto) : Alfabeto[k] = c

\* s < t for two texts, as Python compares str
RECURSIVE MenorTexto(_, _)
MenorTexto(s, t) ==
    IF t = <<>> THEN FALSE
    ELSE IF s = <<>> THEN TRUE
    ELSE IF Head(s) = Head(t) THEN MenorTexto(Tail(s), Tail(t))
    ELSE Codigo(Head(s)) < Codigo(Head(t))

\* str.strip() of a text
StripTexto(s) ==
    LET fora == {k \in 1..Len(s) : s[k] \notin Espacos}
    IN  IF fora = {} THEN <<>>
        ELSE LET a == CHOOSE k \in fora : \A j \in fora : k <= j
                 b == CHOOSE k \in fora : \A j \in fora : k >= j
             IN  SubSeq(s, a, b)

\* Series.str.strip(): a missing cell stays missing
strip(c) == IF c = NaN THEN NaN ELSE StripTexto(c)

\* Series.fillna("")
fillna(c) == IF c = NaN THEN <<>> ELSE c

\* Series.str.replace(",", ".", regex=False)
replace_virgula(c) ==
    IF c = NaN THEN NaN
    ELSE [k \in 1..Len(c) |-> IF c[k] = "," THEN "." ELSE c[k]]

\* Series.str.replace(r"[^\d.\-]", "", regex=True)
replace_estranhos(c) ==
    IF c = NaN THEN NaN
    ELSE SelectSeq(c, LAMBDA ch : ch \in Digitos \cup {".", "-"})

-----------------------------------------------------------------------------
(* Numbers *)

NumNaN == [nan |-> TRUE, m |-> 0, e |-> 0]

ValorDigito(ch) == Codigo(ch) - Codigo("0")

\* the natural number written by a sequence of digits (0 for none)
RECURSIVE Inteiro(_)
Inteiro(ds) ==
    IF ds = <<>> THEN 0
    ELSE 10 * Inteiro(SubSeq(ds, 1, Len(ds) - 1)) + ValorDigito(ds[Len(ds)])

RECURSIVE Normal(_, _)
Normal(m, e) ==
    IF e > 0 /\ m % 10 = 0 THEN Normal(m \div 10, e - 1)
    ELSE [nan |-> FALSE, m |-> m, e |-> e]

\* pd.to_numeric(errors="coerce") of one cell whose characters are digits,
\* dots and minus signs: [-] digits [. digits] with at least one digit
to_numeric(c) ==
    IF c = NaN THEN NumNaN
    ELSE
      LET neg   == c # <<>> /\ Head(c) = "-"
          corpo == IF neg THEN Tail(c) ELSE c
          pts   == {k \in 1..Len(corpo) : corpo[k] = "."}
          p     == IF pts = {} THEN Len(corpo) + 1
                   ELSE CHOOSE k \in pts : \A j \in pts : k <= j
          int   == SubSeq(corpo, 1, p - 1)
          frac  == SubSeq(corpo, p + 1, Len(corpo))
          soDig(s) == \A k \in 1..Len(s) : s[k] \in Digitos
      IN  IF /\ Cardinality(pts) <= 1
             /\ soDig(int) /\ soDig(frac)
             /\ Len(int) + Len(frac) >= 1
          THEN LET v == Normal(Inteiro(int \o frac), Len(frac))
               IN  [v EXCEPT !.m = IF neg THEN 0 - v.m ELSE v.m]
          ELSE NumNaN

-----------------------------------------------------------------------------
(* ingestao.py: columns and data frames *)

COLUNAS_MANTER ==
    <<"EMP_CODIGO", "MES_ANO", "NUM_FOLHA", "SETOR", "ORGAO", "NUMFUNC",
      "NUMVINC", "SITUACAO", "CARGO", "TIPOVINC", "RUBRICA", "NOME_RUBRICA",
      "COMPLEMENTO", "COMPETENCIA", "INFO", "TIPO_PAGAMENTO", "TIPO_RUBRICA",
      "VDA", "VALOR">>

ColunasManter == {COLUNAS_MANTER[k] : k \in 1..Len(COLUNAS_MANTER)}

TAMANHO_LOTE == 500

\* len(df): the number of rows of a sequence of blocks
RECURSIVE len(_)
len(ls) == IF ls = <<>> THEN 0 ELSE Head(ls).n + len(Tail(ls))

\* rows lo .. hi-1 (0-based) of a sequence of blocks: registros[lo:hi]
RECURSIVE Fatia(_, _, _)
Fatia(ls, lo, hi) ==
    IF ls = <<>> \/ hi <= 0 THEN <<>>
    ELSE LET h    == Head(ls)
             a    == Max(lo, 0)
             b    == Min(hi, h.n)
             rest == Fatia(Tail(ls), lo - h.n, hi - h.n)
         IN  IF b > a THEN <<[lin |-> h.lin, n |-> b - a]>> \o rest ELSE rest

\* the rows of a sequence of blocks as a bag
RECURSIVE ComoBag(_)
ComoBag(ls) ==
    IF ls = <<>> THEN EmptyBag
    ELSE (Head(ls).lin :> Head(ls).n) (+) ComoBag(Tail(ls))

\* faltando with the last required column left out of the test
faltando_sem_ultima(d) ==
    SelectSeq(SubSeq(COLUNAS_MANTER, 1, Len(COLUNAS_MANTER) - 1),
              LAMBDA c : c \notin d.colunas)

\* the missing list computed by validar_colunas, in COLUNAS_MANTER's order
faltando(d) == SelectSeq(COLUNAS_MANTER, LAMBDA c : c \notin d.colunas)

validar_colunas(d) == faltando(d) = <<>>

-----------------------------------------------------------------------------
(* ingestao.py: transformar *)

\* 1. df[COLUNAS_MANTER]
passo1(lin) == [c \in ColunasManter |-> lin[c]]

\* 2. str.strip() on every text column
passo2(lin) == [c \in DOMAIN lin |-> strip(lin[c])]

\* 3. cod = NUMFUNC.fillna("") + NUMVINC.fillna(""), stripped
passo3(lin) ==
    lin @@ ("cod" :> strip(fillna(lin["NUMFUNC"]) \o fillna(lin["NUMVINC"])))

\* 4. VALOR: comma to dot, other characters removed, to_numeric
passo4(lin) ==
    [lin EXCEPT !["VALOR"] = to_numeric(replace_estranhos(replace_virgula(@)))]

\* step 5 without VALOR in the subset of dropna
fica_sem_valor(lin) == lin["cod"] # NaN /\ lin["cod"] # <<>>

\* step 5 without the test cod != ""
fica_sem_cod(lin) == lin["cod"] # NaN /\ lin["VALOR"] # NumNaN

\* 5. dropna(subset=["cod", "VALOR"]) and cod != ""
fica(lin) == lin["cod"] # NaN /\ lin["VALOR"] # NumNaN /\ lin["cod"] # <<>>

passo5(ls) == SelectSeq(ls, LAMBDA b : fica(b.lin))

\* 6. rename to the lower-case names of the store
RENOMEAR ==
    [c \in ColunasManter \ {"NUMFUNC", "NUMVINC"} |->
        CASE c = "EMP_CODIGO"     -> "emp_codigo"
          [] c = "MES_ANO"        -> "mes_ano"
          [] c = "NUM_FOLHA"      -> "num_folha"
          [] c = "SETOR"          -> "setor"
          [] c = "ORGAO"          -> "orgao"
          [] c = "SITUACAO"       -> "situacao"
          [] c = "CARGO"          -> "cargo"
          [] c = "TIPOVINC"       -> "tipovinc"
          [] c = "RUBRICA"        -> "rubrica"
          [] c = "NOME_RUBRICA"   -> "nome_rubrica"
          [] c = "COMPLEMENTO"    -> "complemento"
          [] c = "COMPETENCIA"    -> "competencia"
          [] c = "INFO"           -> "info"
          [] c = "TIPO_PAGAMENTO" -> "tipo_pagamento"
          [] c = "TIPO_RUBRICA"   -> "tipo_rubrica"
          [] c = "VDA"            -> "vda"
          [] c = "VALOR"          -> "valor"]

NovoNome(c) == IF c \in DOMAIN RENOMEAR THEN RENOMEAR[c] ELSE c

passo6(lin) ==
    [d \in {NovoNome(c) : c \in DOMAIN lin} |->
        lin[CHOOSE c \in DOMAIN lin : NovoNome(c) = d]]

\* 7. drop(columns=["NUMFUNC", "NUMVINC"], errors="ignore")
passo7(lin) == [c \in DOMAIN lin \ {"NUMFUNC", "NUMVINC"} |-> lin[c]]

\* 8. importado_por, importado_em
passo8(lin, usuario, agora) ==
    lin @@ ("importado_por" :> usuario) @@ ("importado_em" :> agora)

\* 9. df.where(pd.notnull(df), None)
passo9(lin) ==
    [c \in DOMAIN lin |->
        IF c \in {"valor", "importado_por", "importado_em"} THEN lin[c]
        ELSE IF lin[c] = NaN THEN None ELSE lin[c]]

\* the frame before step 5: steps 1 to 4 are column-wise, so they act on
\* each row by itself
antes_passo5(d) ==
    [k \in 1..Len(d.linhas) |->
        [lin |-> passo4(passo3(passo2(passo1(d.linhas[k].lin)))),
         n   |-> d.linhas[k].n]]

\* transformar(df, usuario); removidas is the count of the message of
\* lines 140-141 (antes - depois)
transformar(d, usuario, agora) ==
    LET a  == antes_passo5(d)
        b  == passo5(a)
        ls == [k \in 1..Len(b) |->
                [lin |-> passo9(passo8(passo7(passo6(b[k].lin)), usuario, agora)),
                 n   |-> b[k].n]]
    IN  [colunas   |-> IF ls = <<>>
                       THEN {NovoNome(c) : c \in ColunasManter \ {"NUMFUNC", "NUMVINC"}}
                            \cup {"cod", "importado_por", "importado_em"}
                       ELSE DOMAIN ls[1].lin,
         linhas    |-> ls,
         removidas |-> len(a) - len(b)]

-----------------------------------------------------------------------------
(* ingestao.py: extrair_mes_ano *)

DESCONHECIDO == <<"D", "E", "S", "C", "O", "N", "H", "E", "C", "I", "D", "O">>

\* Series.mode(): the most frequent non-null values, sorted
moda(ls) ==
    LET vals    == {ls[k].lin["mes_ano"] : k \in 1..Len(ls)} \ {NaN, None}
        cont(v) == len(SelectSeq(ls, LAMBDA b : b.lin["mes_ano"] = v))
    IN  {v \in vals : \A w \in vals : cont(v) >= cont(w)}

\* [ok, valor]: ok = FALSE is the IndexError of .iloc[0] on an empty mode
extrair_mes_ano(d) ==
    IF "mes_ano" \in d.colunas
    THEN IF len(d.linhas) # 0
         THEN LET ms == moda(d.linhas)
              IN  IF ms = {} THEN [ok |-> FALSE, valor |-> <<>>]
                  ELSE [ok |-> TRUE,
                        valor |-> CHOOSE v \in ms :
                                    \A w \in ms \ {v} : MenorTexto(v, w)]
         ELSE [ok |-> TRUE, valor |-> DESCONHECIDO]
    ELSE [ok |-> TRUE, valor |-> DESCONHECIDO]

-----------------------------------------------------------------------------
(* The store (Supabase), as the calls of the program see it *)

\* a delete that removes every row of the table
StoreDelete_tudo(g, m) == EmptyBag

\* table("gratificacoes").delete().eq("mes_ano", m).execute() that succeeds
StoreDelete(g, m) == [r \in {x \in DOMAIN g : x["mes_ano"] # m} |-> g[r]]

\* the rows that call deletes (resultado.data)
StoreDeleted(g, m) == [r \in {x \in DOMAIN g : x["mes_ano"] = m} |-> g[r]]

\* an insert that stores a row only when no equal row is stored
StoreInsert_sem_repetir(g, lote) ==
    [r \in DOMAIN g \cup DOMAIN ComoBag(lote) |-> 1]

\* table("gratificacoes").insert(lote).execute() that succeeds
StoreInsert(g, lote) == g (+) ComoBag(lote)

\* number of rows of a bag
Tamanho(g) == BagCardinality(g)

-----------------------------------------------------------------------------
(* Requests, responses *)

Procs == {1, 2}

SemCorpo ==
    [ok |-> FALSE, mes_ano |-> <<>>, inseridos |-> 0, erros |-> 0, operacao |-> ""]

SemResp == [status |-> -1, detail |-> "", corpo |-> SemCorpo]

SemDf == [colunas |-> {}, linhas |-> <<>>, removidas |-> 0]

SemReq ==
    [tipo |-> "", arquivo |-> [nome |-> "", colunas |-> {}, linhas |-> <<>>],
     usuario |-> "", substituir |-> FALSE]

\* HTTPException(status_code, detail), or a CLI exit with that code
Erro(status, detail) == [status |-> status, detail |-> detail, corpo |-> SemCorpo]

\* an exception that leaves the handler: HTTP 500 with str(e) from the
\* catch-all of importar_csv; in main an uncaught exception, exit code 1
Excecao(tipo, msg) == IF tipo = "http" THEN Erro(500, msg) ELSE Erro(1, msg)

\* "SUBSTITUICAO" if substituir else "NOVA"
Operacao(substituir) == IF substituir THEN "SUBSTITUICAO" ELSE "NOVA"

\* the JSON of importar_csv (status 200) / the summary of main (exit 0)
Sucesso(tipo, m, ins, err, op) ==
    [status |-> IF tipo = "http" THEN 200 ELSE 0,
     detail |-> "",
     corpo  |-> [ok |-> TRUE, mes_ano |-> m, inseridos |-> ins, erros |-> err,
                 operacao |-> op]]

Chamada(op, ok, de, n) == [op |-> op, ok |-> ok, de |-> de, n |-> n]

-----------------------------------------------------------------------------
(* CSV files read by pd.read_csv(sep=";", dtype=str) *)

\* one row of a file with the given header: the four columns the
\* transformation computes with, SETOR with blanks around it, COMPLEMENTO
\* missing, the other columns a plain text
LinhaCsv(cols, mes, nf, nv, v) ==
    [c \in cols |->
        CASE c = "MES_ANO"     -> mes
          [] c = "NUMFUNC"     -> nf
          [] c = "NUMVINC"     -> nv
          [] c = "VALOR"       -> v
          [] c = "SETOR"       -> <<" ", "x", " ">>
          [] c = "COMPLEMENTO" -> NaN
          [] OTHER             -> <<"x">>]

Bloco(lin, n) == [lin |-> lin, n |-> n]

Csv(nome, cols, linhas) == [nome |-> nome, colunas |-> cols, linhas |-> linhas]

Jan == <<"0", "1">>
Fev == <<"0", "2">>

ComExtra == ColunasManter \cup {"NOME_CARGO"}

\* the files of the concurrent specification
Arquivos ==
    { Csv("jan.csv", ComExtra,
          << Bloco(LinhaCsv(ComExtra, Jan, <<"1">>, <<"2">>, <<"1", ",", "5">>),
                   TAMANHO_LOTE + 1),
             Bloco(LinhaCsv(ComExtra, Jan, <<"1">>, <<"2">>, <<"R", "$">>), 1) >>),
      Csv("misto.csv", ColunasManter,
          << Bloco(LinhaCsv(ColunasManter, Jan, <<"3">>, NaN, <<"2">>), 2),
             Bloco(LinhaCsv(ColunasManter, Fev, <<"3">>, NaN, <<"2">>), 1) >>),
      Csv("sem_valor.csv", ComExtra \ {"VALOR", "VDA"},
          << Bloco(LinhaCsv(ComExtra \ {"VALOR", "VDA"}, Jan, <<"1">>, <<"2">>, NaN), 1) >>),
      Csv("vazio.csv", ColunasManter, <<>>) }

Usuarios == {"ana"}

Pedidos(arquivos) ==
    [tipo : {"http", "cli"}, arquivo : arquivos, usuario : Usuarios,
     substituir : BOOLEAN]

-----------------------------------------------------------------------------
(* Actions *)

\* a request reaches POST /api/importar, or ingestao.py is started; the
\* imports are numbered in the order they arrive
Requisicao(p) ==
    /\ pc[p] = "ocioso"
    /\ \A q \in Procs : q < p => pc[q] # "ocioso"
    /\ \E r \in Pedidos(Arquivos) : req' = [req EXCEPT ![p] = r]
    /\ pc' = [pc EXCEPT ![p] = "recebido"]
    /\ UNCHANGED <<gratificacoes, importacoes_log, relogio, df, mes_ano, i,
                   inseridos, erros, resp, chamadas, respDel>>

\* importar_csv up to get_supabase / main up to the confirmation:
\* validar_colunas, transformar, extrair_mes_ano
Preparar(p) ==
    /\ pc[p] = "recebido"
    /\ LET r == req[p]
           t == transformar(r.arquivo, r.usuario, relogio)
           m == extrair_mes_ano(t)
       IN  IF ~validar_colunas(r.arquivo)
           THEN /\ resp' = [resp EXCEPT ![p] =
                        IF r.tipo = "http"
                        THEN Erro(400, "Estrutura do CSV inválida.")
                        ELSE Erro(1, "")]
                /\ pc' = [pc EXCEPT ![p] = "fim"]
                /\ UNCHANGED <<relogio, df, mes_ano>>
           ELSE /\ relogio' = relogio + 1
                /\ df' = [df EXCEPT ![p] = t]
                /\ IF m.ok
                   THEN /\ mes_ano' = [mes_ano EXCEPT ![p] = m.valor]
                        /\ pc' = [pc EXCEPT ![p] =
                                IF r.substituir THEN "substituir" ELSE "lotes"]
                        /\ UNCHANGED resp
                   ELSE /\ resp' = [resp EXCEPT ![p] =
                                Excecao(r.tipo, "single positional indexer is out-of-bounds")]
                        /\ pc' = [pc EXCEPT ![p] = "fim"]
                        /\ UNCHANGED mes_ano
    /\ UNCHANGED <<gratificacoes, importacoes_log, req, i, inseridos, erros,
                   chamadas, respDel>>

\* app.py line 238: the name deletar_competencia imported at line 32 is
\* rebound at line 316 to the one-parameter endpoint coroutine, so the call
\* with two arguments raises TypeError before any store call
DeletarHttp(p) ==
    /\ pc[p] = "substituir"
    /\ req[p].tipo = "http"
    /\ resp' = [resp EXCEPT ![p] =
            Excecao("http", "deletar_competencia() takes 1 positional argument but 2 were given")]
    /\ pc' = [pc EXCEPT ![p] = "fim"]
    /\ UNCHANGED <<gratificacoes, importacoes_log, relogio, req, df, mes_ano, i,
                   inseridos, erros, chamadas, respDel>>

\* main going on to inserir_em_lotes whatever deletar_competencia did
apos_deletar_segue(ok) == "lotes"

\* where main goes after deletar_competencia at line 311: on to
\* inserir_em_lotes, or out of main with the exception, which nothing catches
apos_deletar(ok) == IF ok THEN "lotes" ELSE "fim"

\* main lines 305-311: the confirmation, then ingestao.deletar_competencia
DeletarCli(p) ==
    /\ pc[p] = "substituir"
    /\ req[p].tipo = "cli"
    /\ \E confirmacao \in {"SIM", "NAO"}, ok \in BOOLEAN :
        IF confirmacao # "SIM"
        THEN /\ resp' = [resp EXCEPT ![p] = Erro(0, "Operação cancelada.")]
             /\ pc' = [pc EXCEPT ![p] = "fim"]
             /\ UNCHANGED <<gratificacoes, chamadas>>
        ELSE /\ chamadas' = [chamadas EXCEPT ![p] =
                    Append(@, Chamada("delete", ok, 0,
                        IF ok THEN Tamanho(StoreDeleted(gratificacoes, mes_ano[p]))
                        ELSE 0))]
             /\ pc' = [pc EXCEPT ![p] = apos_deletar(ok)]
             /\ IF ok
                THEN /\ gratificacoes' = StoreDelete(gratificacoes, mes_ano[p])
                     /\ UNCHANGED resp
                ELSE /\ resp' = [resp EXCEPT ![p] = Excecao("cli", "store")]
                     /\ UNCHANGED gratificacoes
    /\ UNCHANGED <<importacoes_log, relogio, req, df, mes_ano, i, inseridos,
                   erros, respDel>>

\* a lote one row short: registros[i : i + TAMANHO_LOTE - 1]
Lote_curto(registros, k) == Fatia(registros, k, k + TAMANHO_LOTE - 1)

\* registros[i : i + TAMANHO_LOTE]
Lote(registros, k) == Fatia(registros, k, k + TAMANHO_LOTE)

\* one iteration of the loop of inserir_em_lotes
InserirLote(p) ==
    /\ pc[p] = "lotes"
    /\ i[p] < len(df[p].linhas)
    /\ LET lote == Lote(df[p].linhas, i[p])
       IN  \E ok \in BOOLEAN :
            /\ chamadas' = [chamadas EXCEPT ![p] =
                    Append(@, Chamada("insert", ok, i[p], len(lote)))]
            /\ IF ok
               THEN /\ gratificacoes' = StoreInsert(gratificacoes, lote)
                    /\ inseridos' = [inseridos EXCEPT ![p] = @ + len(lote)]
                    /\ UNCHANGED erros
               ELSE /\ erros' = [erros EXCEPT ![p] = @ + len(lote)]
                    /\ UNCHANGED <<gratificacoes, inseridos>>
    /\ i' = [i EXCEPT ![p] = @ + TAMANHO_LOTE]
    /\ UNCHANGED <<importacoes_log, relogio, pc, req, df, mes_ano, resp, respDel>>

\* the log record with linhas_total taken from the inserted count
RegistroLog_total_inseridos(p, agora) ==
    [mes_ano          |-> mes_ano[p],
     operacao         |-> Operacao(req[p].substituir),
     arquivo          |-> req[p].arquivo.nome,
     linhas_total     |-> inseridos[p],
     linhas_inseridas |-> inseridos[p],
     linhas_erro      |-> erros[p],
     importado_por    |-> req[p].usuario,
     importado_em     |-> agora]

\* the record registrar_log inserts
RegistroLog(p, agora) ==
    [mes_ano          |-> mes_ano[p],
     operacao         |-> Operacao(req[p].substituir),
     arquivo          |-> req[p].arquivo.nome,
     linhas_total     |-> len(df[p].linhas),
     linhas_inseridas |-> inseridos[p],
     linhas_erro      |-> erros[p],
     importado_por    |-> req[p].usuario,
     importado_em     |-> agora]

\* the loop of inserir_em_lotes is over: registrar_log, then the response
RegistrarLog(p) ==
    /\ pc[p] = "lotes"
    /\ i[p] >= len(df[p].linhas)
    /\ \E ok \in BOOLEAN :
        /\ chamadas' = [chamadas EXCEPT ![p] = Append(@, Chamada("log", ok, 0, 1))]
        /\ IF ok
           THEN /\ importacoes_log' = Append(importacoes_log, RegistroLog(p, relogio))
                /\ resp' = [resp EXCEPT ![p] =
                        Sucesso(req[p].tipo, mes_ano[p], inseridos[p], erros[p],
                                Operacao(req[p].substituir))]
           ELSE /\ resp' = [resp EXCEPT ![p] = Excecao(req[p].tipo, "store")]
                /\ UNCHANGED importacoes_log
    /\ pc' = [pc EXCEPT ![p] = "fim"]
    /\ UNCHANGED <<gratificacoes, relogio, req, df, mes_ano, i, inseridos, erros,
                   respDel>>

\* str(e) of the HTTPException raised at app.py line 323: Starlette's
\* "{status_code}: {detail}", or "" in the versions whose HTTPException
\* passes no argument to Exception
StrHTTPException == {"400: mes_ano não fornecido", ""}

CorposDelete == {None, <<>>, Jan}

\* POST /api/delete-competencia
DeleteCompetencia ==
    /\ respDel.n < MaxDeletes
    /\ \E m \in CorposDelete, ok \in BOOLEAN, msg \in StrHTTPException :
        IF m = None \/ m = <<>>
        THEN /\ respDel' = [n |-> respDel.n + 1, mes_ano |-> m, status |-> 500,
                            detail |-> msg, deleted |-> 0, chamou |-> FALSE]
             /\ UNCHANGED gratificacoes
        ELSE IF ok
        THEN /\ gratificacoes' = StoreDelete(gratificacoes, m)
             /\ respDel' = [n |-> respDel.n + 1, mes_ano |-> m, status |-> 200,
                            detail |-> "",
                            deleted |-> Tamanho(StoreDeleted(gratificacoes, m)),
                            chamou |-> TRUE]
        ELSE /\ respDel' = [n |-> respDel.n + 1, mes_ano |-> m, status |-> 500,
                            detail |-> "store", deleted |-> 0, chamou |-> TRUE]
             /\ UNCHANGED gratificacoes
    /\ UNCHANGED <<importacoes_log, relogio, pc, req, df, mes_ano, i, inseridos,
                   erros, resp, chamadas>>

-----------------------------------------------------------------------------
(* The server with two imports in flight *)

Ocioso ==
    /\ pc = [p \in Procs |-> "ocioso"]
    /\ req = [p \in Procs |-> SemReq]
    /\ df = [p \in Procs |-> SemDf]
    /\ mes_ano = [p \in Procs |-> <<>>]
    /\ i = [p \in Procs |-> 0]
    /\ inseridos = [p \in Procs |-> 0]
    /\ erros = [p \in Procs |-> 0]
    /\ resp = [p \in Procs |-> SemResp]
    /\ chamadas = [p \in Procs |-> <<>>]

SemRespDel ==
    [n |-> 0, mes_ano |-> <<>>, status |-> -1, detail |-> "", deleted |-> 0,
     chamou |-> FALSE]

Init ==
    /\ gratificacoes = EmptyBag
    /\ importacoes_log = <<>>
    /\ relogio = 0
    /\ respDel = SemRespDel
    /\ Ocioso

Next ==
    \/ \E p \in Procs :
        \/ Requisicao(p)
        \/ Preparar(p)
        \/ DeletarHttp(p)
        \/ DeletarCli(p)
        \/ InserirLote(p)
        \/ RegistrarLog(p)
    \/ DeleteCompetencia

Spec == Init /\ [][Next]_vars

-----------------------------------------------------------------------------
(* One import run alone, on a wide family of files *)

CharsValor == {"1", ",", ".", "-", " ", "R"}

\* every text of at most n characters
Textos(n) == UNION {[1..k -> CharsValor] : k \in 0..n}

\* "1.234,56": a thousands dot and a decimal comma
ValorMilhar == <<"1", ".", "2", "3", "4", ",", "5", "6">>

ValoresT == Textos(MaxTexto) \cup {NaN, ValorMilhar}

\* (NUMFUNC, NUMVINC)
ParesT ==
    { <<<<"1", "2", "3">>, <<"4", "5">>>>,
      <<<<" ", "1">>, <<"2", " ">>>>,
      <<NaN, <<"7">>>>,
      <<NaN, NaN>>,
      <<<<" ">>, <<>>>> }

\* files of one row
ArquivosValor ==
    { Csv("valor.csv", ColunasManter,
          <<Bloco(LinhaCsv(ColunasManter, Jan, par[1], par[2], v), 1)>>) :
        par \in ParesT, v \in ValoresT }

LinhasT ==
    { LinhaCsv(ComExtra, Jan, <<"1">>, <<"2">>, <<"1", ",", "5">>),
      LinhaCsv(ComExtra, Fev, <<"1">>, <<"2">>, <<"1", ",", "5">>),
      LinhaCsv(ComExtra, NaN, <<"1">>, <<"2">>, <<"1", ",", "5">>),
      LinhaCsv(ComExtra, <<" ", " ">>, <<"1">>, <<"2">>, <<"3">>),
      LinhaCsv(ComExtra, Jan, <<"1">>, <<"2">>, <<"-">>),
      LinhaCsv(ComExtra, Fev, <<" ">>, NaN, <<"3">>) }

BlocosT == {Bloco(l, n) : l \in LinhasT, n \in 1..2}

\* files of at most MaxLinhasT blocks of one or two equal rows
ArquivosLinhas ==
    { Csv("linhas.csv", ComExtra, ls) :
        ls \in UNION {[1..k -> BlocosT] : k \in 0..MaxLinhasT} }

\* files whose header lacks required columns
ArquivosCabecalho ==
    { Csv("cabecalho.csv", cols,
          <<Bloco(LinhaCsv(cols, Jan, <<"1">>, <<"2">>, <<"3">>), 1)>>) :
        cols \in { (ColunasManter \ f) \cup x :
                     f \in SUBSET {"EMP_CODIGO", "MES_ANO", "VALOR"},
                     x \in {{}, {"NOME_CARGO"}} } }

\* files of n equal rows, for every n up to MaxRegistros
ArquivosLotes ==
    { Csv("lotes.csv", ColunasManter,
          IF n = 0 THEN <<>>
          ELSE <<Bloco(LinhaCsv(ColunasManter, Jan, <<"1">>, <<"2">>, <<"3">>), n)>>) :
        n \in 0..MaxRegistros }

PedidosSeq ==
    Pedidos(ArquivosValor \cup ArquivosLinhas \cup ArquivosCabecalho)
    \cup [tipo : {"cli"}, arquivo : ArquivosLotes, usuario : Usuarios,
          substituir : {FALSE}]

InitSeq ==
    /\ gratificacoes = EmptyBag
    /\ importacoes_log = <<>>
    /\ relogio = 0
    /\ respDel = SemRespDel
    /\ pc = [p \in Procs |-> IF p = 1 THEN "recebido" ELSE "ocioso"]
    /\ \E r \in PedidosSeq : req = [p \in Procs |-> IF p = 1 THEN r ELSE SemReq]
    /\ df = [p \in Procs |-> SemDf]
    /\ mes_ano = [p \in Procs |-> <<>>]
    /\ i = [p \in Procs |-> 0]
    /\ inseridos = [p \in Procs |-> 0]
    /\ erros = [p \in Procs |-> 0]
    /\ resp = [p \in Procs |-> SemResp]
    /\ chamadas = [p \in Procs |-> <<>>]

NextSeq ==
    \/ Preparar(1)
    \/ DeletarHttp(1)
    \/ DeletarCli(1)
    \/ InserirLote(1)
    \/ RegistrarLog(1)

SpecSeq == InitSeq /\ [][NextSeq]_vars

-----------------------------------------------------------------------------
(* Properties *)

\* import p got past validar_colunas
Passou(p) == pc[p] \notin {"ocioso", "recebido"} /\ validar_colunas(req[p].arquivo)

\* the calls of one kind among the store calls of import p
ChamadasDe(p, op) == SelectSeq(chamadas[p], LAMBDA c : c.op = op)

\* the rows of the calls that ended ok / not ok
RECURSIVE SomaN(_, _)
SomaN(cs, ok) ==
    IF cs = <<>> THEN 0
    ELSE (IF Head(cs).ok = ok THEN Head(cs).n ELSE 0) + SomaN(Tail(cs), ok)

\* C2: a file whose header lacks a required column fails validar_colunas, the
\* missing list holds exactly the required names absent from the header (each
\* once, in the order of COLUNAS_MANTER), and the import ends with a client
\* error (HTTP 400, exit code 1) without any call to the store.
C2_SemColunaSemPersistencia ==
    \A p \in Procs :
        (pc[p] # "ocioso" /\ ~(ColunasManter \subseteq req[p].arquivo.colunas)) =>
            LET a == req[p].arquivo
                f == faltando(a)
            IN  /\ ~validar_colunas(a)
                /\ {f[k] : k \in 1..Len(f)} = ColunasManter \ a.colunas
                /\ Len(f) = Cardinality(ColunasManter \ a.colunas)
                /\ pc[p] \in {"recebido", "fim"}
                /\ chamadas[p] = <<>>
                /\ gratificacoes = EmptyBag /\ importacoes_log = <<>>
                /\ pc[p] = "fim" =>
                        resp[p] = IF req[p].tipo = "http"
                                  THEN Erro(400, "Estrutura do CSV inválida.")
                                  ELSE Erro(1, "")

C2_Witness ==
    /\ pc[1] = "fim"
    /\ req[1].tipo = "http"
    /\ faltando(req[1].arquivo) = <<"EMP_CODIGO", "VALOR">>
    /\ "NOME_CARGO" \in req[1].arquivo.colunas
    /\ resp[1].status = 400

\* C3: inserir_em_lotes on N records issues the lotes in order, lote k
\* starting at row (k-1)*TAMANHO_LOTE with min(TAMANHO_LOTE, N - start) rows,
\* whatever lotes failed; inseridos and erros are the rows of the lotes that
\* succeeded and failed; when the loop is over there were ceil(N/TAMANHO_LOTE)
\* insert calls and inseridos + erros = N.
C3_Lotes ==
    \A p \in Procs :
        Passou(p) =>
            LET N  == len(df[p].linhas)
                cs == ChamadasDe(p, "insert")
            IN  /\ \A k \in 1..Len(cs) :
                    /\ cs[k].de = (k - 1) * TAMANHO_LOTE
                    /\ cs[k].de < N
                    /\ cs[k].n = Min(TAMANHO_LOTE, N - cs[k].de)
                /\ inseridos[p] = SomaN(cs, TRUE)
                /\ erros[p] = SomaN(cs, FALSE)
                /\ ((pc[p] = "lotes" /\ i[p] >= N) \/ ChamadasDe(p, "log") # <<>>) =>
                        /\ Len(cs) = (N + TAMANHO_LOTE - 1) \div TAMANHO_LOTE
                        /\ inseridos[p] + erros[p] = N

C3_Witness ==
    /\ pc[1] = "lotes"
    /\ len(df[1].linhas) = 2 * TAMANHO_LOTE + 1
    /\ i[1] >= len(df[1].linhas)
    /\ Len(chamadas[1]) = 3
    /\ ~chamadas[1][1].ok /\ chamadas[1][2].ok /\ ~chamadas[1][3].ok
    /\ inseridos[1] = TAMANHO_LOTE /\ erros[1] = TAMANHO_LOTE + 1

\* C4: the row NUMFUNC "123", NUMVINC "45", VALOR "1.234,56" is transformed
\* into exactly one record, with cod "12345" and valor 1234.56.
C4_ValorMilhar ==
    \A p \in Procs :
        (/\ Passou(p)
         /\ len(req[p].arquivo.linhas) = 1
         /\ req[p].arquivo.linhas[1].lin["NUMFUNC"] = <<"1", "2", "3">>
         /\ req[p].arquivo.linhas[1].lin["NUMVINC"] = <<"4", "5">>
         /\ req[p].arquivo.linhas[1].lin["VALOR"] = ValorMilhar) =>
            /\ len(df[p].linhas) = 1
            /\ df[p].linhas[1].lin["cod"] = <<"1", "2", "3", "4", "5">>
            /\ df[p].linhas[1].lin["valor"] = [nan |-> FALSE, m |-> 123456, e |-> 2]

\* the VALOR of a raw row is no number once commas are dots and the
\* characters other than digits, dots and minus signs are removed, or is missing
ValorRuim(lin) ==
    to_numeric(replace_estranhos(replace_virgula(strip(lin["VALOR"])))) = NumNaN

\* the VALOR of a raw row is no number once commas are dots, or is missing
ValorRuimSemLimpeza(lin) == to_numeric(replace_virgula(strip(lin["VALOR"]))) = NumNaN

\* C5, as amended: every raw row whose VALOR is missing or, after replacing
\* each comma by a dot and removing every character that is not a digit, a
\* dot or a minus sign, is not a number, is excluded from the output of
\* transformar, and the removed-rows count (rows before minus rows after)
\* includes it.
C5_ValorInvalidoRemovido ==
    \A p \in Procs :
        Passou(p) =>
            LET ent   == req[p].arquivo.linhas
                sai   == df[p].linhas
                ruins == len(SelectSeq(ent, LAMBDA b : ValorRuim(b.lin)))
            IN  /\ df[p].removidas = len(ent) - len(sai)
                /\ df[p].removidas >= ruins
                /\ len(sai) <= len(ent) - ruins
                /\ \A k \in 1..Len(sai) : ~sai[k].lin["valor"].nan

C5_Witness ==
    /\ Passou(1)
    /\ len(req[1].arquivo.linhas) = 1
    /\ req[1].arquivo.linhas[1].lin["VALOR"] = <<"1", ",", ",">>
    /\ req[1].arquivo.linhas[1].lin["NUMFUNC"] = <<"1", "2", "3">>
    /\ df[1].linhas = <<>>
    /\ df[1].removidas = 1

\* C5, as the claim states it: every raw row whose VALOR, after replacing
\* each comma by a dot, is not a number (it still holds a letter, a currency
\* symbol, a blank) is excluded from the output and counted as removed.
C5_Original ==
    \A p \in Procs :
        Passou(p) =>
            LET ent   == req[p].arquivo.linhas
                sai   == df[p].linhas
                ruins == len(SelectSeq(ent, LAMBDA b : ValorRuimSemLimpeza(b.lin)))
            IN  /\ df[p].removidas >= ruins
                /\ len(sai) <= len(ent) - ruins

\* a cell that is missing, empty or only blanks
Branco(c) == c = NaN \/ \A k \in 1..Len(c) : c[k] \in Espacos

SemCod(lin) == Branco(lin["NUMFUNC"]) /\ Branco(lin["NUMVINC"])

\* C6: every record transformar outputs for a file that passed validar_colunas
\* has a non-empty cod and a numeric valor; the rows whose NUMFUNC and NUMVINC
\* are both missing, empty or blank are not in the output; so every row that
\* reached the store has a non-empty cod and a numeric valor too.
C6_CodEValor ==
    /\ \A p \in Procs :
        Passou(p) =>
            LET ent == req[p].arquivo.linhas
                sai == df[p].linhas
            IN  /\ \A k \in 1..Len(sai) :
                    /\ sai[k].lin["cod"] \notin {<<>>, NaN, None}
                    /\ ~sai[k].lin["valor"].nan
                /\ len(sai) <= len(ent) - len(SelectSeq(ent, LAMBDA b : SemCod(b.lin)))
    /\ \A r \in DOMAIN gratificacoes :
        r["cod"] \notin {<<>>, NaN, None} /\ ~r["valor"].nan

C6_Witness ==
    /\ pc[1] = "fim"
    /\ Len(req[1].arquivo.linhas) = 2
    /\ SemCod(req[1].arquivo.linhas[1].lin)
    /\ ~ValorRuim(req[1].arquivo.linhas[1].lin)
    /\ df[1].removidas = req[1].arquivo.linhas[1].n
    /\ len(df[1].linhas) = req[1].arquivo.linhas[2].n
    /\ inseridos[1] = len(df[1].linhas)
    /\ gratificacoes # EmptyBag

\* the mes_ano values of a data frame that are not missing
MesesPresentes(d) ==
    {d.linhas[k].lin["mes_ano"] : k \in 1..Len(d.linhas)} \ {NaN, None}

\* C10: extrair_mes_ano never fails: it returns the sentinel when there are
\* no rows or every row's mes_ano is missing, and otherwise one of the most
\* frequent values of mes_ano; the import goes on with that value.
C10_ExtrairSemFalha ==
    \A p \in Procs :
        Passou(p) =>
            LET m == extrair_mes_ano(df[p])
            IN  /\ m.ok
                /\ mes_ano[p] = m.valor
                /\ MesesPresentes(df[p]) = {} => m.valor = DESCONHECIDO
                /\ MesesPresentes(df[p]) # {} => m.valor \in moda(df[p].linhas)
                /\ resp[p].detail # "single positional indexer is out-of-bounds"

\* the rows of a bag whose mes_ano is m
DaCompetencia(g, m) == [r \in {x \in DOMAIN g : x["mes_ano"] = m} |-> g[r]]

\* C1: an import through POST /api/importar with substituir=true, on a file
\* that passes validar_colunas, deletes the rows of the extracted competency
\* and then inserts the transformed records; when no store call of it failed
\* it answers 200 with operacao SUBSTITUICAO and the inserted count, and (no
\* other request having written to the table) the rows stored for that
\* competency are the rows of the file of that competency.
C1_SubstituicaoHttp ==
    \A p \in Procs :
        (/\ req[p].tipo = "http" /\ req[p].substituir
         /\ Passou(p) /\ extrair_mes_ano(df[p]).ok
         /\ pc[p] = "fim"
         /\ \A k \in 1..Len(chamadas[p]) : chamadas[p][k].ok) =>
            /\ chamadas[p] # <<>>
            /\ chamadas[p][1].op = "delete"
            /\ resp[p] = Sucesso("http", mes_ano[p], len(df[p].linhas), 0, "SUBSTITUICAO")
            /\ (respDel.n = 0 /\ \A q \in Procs \ {p} : chamadas[q] = <<>>) =>
                    DaCompetencia(gratificacoes, mes_ano[p])
                        = DaCompetencia(ComoBag(df[p].linhas), mes_ano[p])

\* C7: when the delete call of a substituir import fails, it is the last
\* store call of that import (no insert, no log insert follows) and the
\* import has ended with an error, HTTP 500 or exit code 1 with the exception.
C7_DeleteFalhouAborta ==
    \A p \in Procs :
        \A k \in 1..Len(chamadas[p]) :
            (chamadas[p][k].op = "delete" /\ ~chamadas[p][k].ok) =>
                /\ k = Len(chamadas[p])
                /\ pc[p] = "fim"
                /\ resp[p] = Excecao(req[p].tipo, "store")
                /\ resp[p].status \in {500, 1}
                /\ req[p].substituir

C7_Witness ==
    /\ pc[2] = "fim"
    /\ req[2].tipo = "cli" /\ req[2].substituir
    /\ chamadas[2] = <<Chamada("delete", FALSE, 0, 0)>>
    /\ resp[2].status = 1
    /\ DaCompetencia(gratificacoes, mes_ano[2]) # EmptyBag

\* the positions of the log-insert calls of import p
PosLog(p) == {k \in 1..Len(chamadas[p]) : chamadas[p][k].op = "log"}

C8_UmaChamada ==
    \A p \in Procs :
        /\ Cardinality(PosLog(p)) <= 1
        /\ \A k \in PosLog(p) : k = Len(chamadas[p]) /\ pc[p] = "fim"
        /\ Passou(p) /\ pc[p] = "fim" /\ resp[p].corpo.ok => PosLog(p) # {}

\* what one step does when import p leaves the batch-insert phase
C8_Passo ==
    /\ \A p \in Procs :
        (pc[p] = "lotes" /\ pc'[p] # "lotes") =>
            /\ i[p] >= len(df[p].linhas)
            /\ pc'[p] = "fim"
            /\ \E ok \in BOOLEAN :
                /\ chamadas'[p] = Append(chamadas[p], Chamada("log", ok, 0, 1))
                /\ ~ok => importacoes_log' = importacoes_log /\ ~resp'[p].corpo.ok
                /\ ok =>
                    /\ Len(importacoes_log') = Len(importacoes_log) + 1
                    /\ SubSeq(importacoes_log', 1, Len(importacoes_log)) = importacoes_log
                    /\ LET r == importacoes_log'[Len(importacoes_log')]
                       IN  /\ r.operacao = IF req[p].substituir THEN "SUBSTITUICAO"
                                           ELSE "NOVA"
                           /\ r.mes_ano = mes_ano[p]
                           /\ r.arquivo = req[p].arquivo.nome
                           /\ r.importado_por = req[p].usuario
                           /\ r.linhas_total = len(df[p].linhas)
                           /\ resp'[p].corpo.ok
                           /\ r.linhas_inseridas = resp'[p].corpo.inseridos
                           /\ r.linhas_erro = resp'[p].corpo.erros
                           /\ r.linhas_inseridas = SomaN(ChamadasDe(p, "insert"), TRUE)
                           /\ r.linhas_erro = SomaN(ChamadasDe(p, "insert"), FALSE)
    /\ (\A p \in Procs : ~(pc[p] = "lotes" /\ pc'[p] # "lotes")) =>
            importacoes_log' = importacoes_log

\* C8, as amended: every import that reaches the end of the batch-insert
\* phase issues exactly one log-insert call, after the last lote and also when
\* lotes failed; when that call succeeds it appends exactly one record to
\* importacoes_log, with operation NOVA or SUBSTITUICAO after substituir and
\* linhas_total, linhas_inseridas, linhas_erro equal to the transformed row
\* count and the counts the import returns; no step of the system changes or
\* removes a record of the log.
C8_LogAposLotes == []C8_UmaChamada /\ [][C8_Passo]_vars

C8_Witness ==
    /\ pc[1] = "fim"
    /\ req[1].substituir
    /\ Len(ChamadasDe(1, "insert")) = 2
    /\ ~chamadas[1][2].ok /\ chamadas[1][3].ok /\ chamadas[1][4].ok
    /\ Len(importacoes_log) = 1
    /\ importacoes_log[1].operacao = "SUBSTITUICAO"
    /\ importacoes_log[1].linhas_total = TAMANHO_LOTE + 1
    /\ importacoes_log[1].linhas_inseridas = 1
    /\ importacoes_log[1].linhas_erro = TAMANHO_LOTE
    /\ resp[1].corpo.erros = TAMANHO_LOTE

\* C8, as the claim states it: every import that reached the end of the
\* batch-insert phase has appended one record to importacoes_log.
C8_Original ==
    Len(importacoes_log) = Cardinality({p \in Procs : PosLog(p) # {}})

\* C9: a delete-competencia request without mes_ano, or with an empty one,
\* is answered 400 with detail "mes_ano não fornecido" and issues no delete.
C9_SemMesAno400 ==
    (respDel.n > 0 /\ respDel.mes_ano \in {None, <<>>}) =>
        /\ respDel.status = 400
        /\ respDel.detail = "mes_ano não fornecido"
        /\ ~respDel.chamou

-----------------------------------------------------------------------------
(* Two imports of one competency *)

\* the rows import p sends to the store
Registros(p) == ComoBag(df[p].linhas)

\* every store call import p issued succeeded, and p has ended
Completa(p) ==
    /\ Passou(p) /\ pc[p] = "fim"
    /\ chamadas[p] # <<>>
    /\ \A k \in 1..Len(chamadas[p]) : chamadas[p][k].ok

\* import p issued a delete call that succeeded
Deletou(p) ==
    \E k \in 1..Len(chamadas[p]) : chamadas[p][k].op = "delete" /\ chamadas[p][k].ok

\* a row without the time stamp of its import
SemCarimbo(r) == [c \in DOMAIN r \ {"importado_em"} |-> r[c]]

\* how many rows of bag g are the row r apart from the time stamp
Vezes(g, r) ==
    BagCardinality([x \in {y \in DOMAIN g : SemCarimbo(y) = SemCarimbo(r)} |-> g[x]])

\* import q's store calls all came after the last store call of import p:
\* p wrote its log record before q's transformar read the clock
Sequenciais(p, q) ==
    /\ Completa(p) /\ Completa(q)
    /\ \E k \in 1..Len(importacoes_log) :
        /\ importacoes_log[k] = RegistroLog(p, importacoes_log[k].importado_em)
        /\ \A b \in 1..Len(df[q].linhas) :
            df[q].linhas[b].lin["importado_em"] >= importacoes_log[k].importado_em

\* C11: there is no mutual exclusion between the store calls of two imports.
\* An import that stands before its delete call or before a lote can issue it
\* whatever the other import is doing.  Of two imports that ended with every
\* store call successful (no delete-competencia request having come), the
\* persisted rows are rows of the two imports, the rows of an import are all
\* persisted unless the other import deleted, and when the two imported the
\* same file without substituir every row of the file is persisted twice.
C11_SemExclusao ==
    /\ \A p \in Procs :
        /\ (pc[p] = "substituir" /\ req[p].tipo = "cli") => ENABLED DeletarCli(p)
        /\ (pc[p] = "lotes" /\ i[p] < len(df[p].linhas)) => ENABLED InserirLote(p)
    /\ \A p \in Procs : \A q \in Procs \ {p} :
        (Completa(p) /\ Completa(q) /\ respDel.n = 0) =>
            /\ gratificacoes \sqsubseteq Registros(p) (+) Registros(q)
            /\ ~Deletou(q) => Registros(p) \sqsubseteq gratificacoes
            /\ (~Deletou(p) /\ ~Deletou(q)) =>
                    gratificacoes = Registros(p) (+) Registros(q)
            /\ (/\ req[p].arquivo = req[q].arquivo
                /\ ~req[p].substituir /\ ~req[q].substituir) =>
                    /\ \A r \in DOMAIN Registros(p) :
                        Vezes(gratificacoes, r) = 2 * Vezes(Registros(p), r)
                    /\ \A r \in DOMAIN gratificacoes : Vezes(Registros(p), r) > 0

\* two imports of jan.csv, both with substituir: both deletes came before
\* the lotes of either, and the rows of both imports are persisted
C11_Witness ==
    /\ respDel.n = 0
    /\ \A p \in Procs :
        /\ req[p].tipo = "cli" /\ req[p].substituir
        /\ req[p].arquivo.nome = "jan.csv"
        /\ Completa(p) /\ Deletou(p)
        /\ mes_ano[p] = Jan
    /\ gratificacoes = Registros(1) (+) Registros(2)
    /\ Tamanho(DaCompetencia(gratificacoes, Jan)) = 2 * (TAMANHO_LOTE + 1)

\* two imports of jan.csv one after the other, without substituir
C11_WitnessSequenciais ==
    /\ respDel.n = 0
    /\ Sequenciais(1, 2)
    /\ req[1].arquivo.nome = "jan.csv" /\ req[2].arquivo.nome = "jan.csv"
    /\ ~req[1].substituir /\ ~req[2].substituir
    /\ Tamanho(gratificacoes) = 2 * (TAMANHO_LOTE + 1)
    /\ \A r \in DOMAIN gratificacoes : Vezes(gratificacoes, r) = 2 * (TAMANHO_LOTE + 1)

\* two imports of jan.csv, one with substituir and one without, whose calls
\* interleave: the delete of the one comes between the two lotes of the other
C11_WitnessIntercalado ==
    /\ respDel.n = 0
    /\ Completa(1) /\ Completa(2)
    /\ req[1].arquivo.nome = "jan.csv" /\ req[2].arquivo.nome = "jan.csv"
    /\ ~req[1].substituir /\ req[2].substituir
    /\ chamadas[2][1].n = TAMANHO_LOTE
    /\ Tamanho(gratificacoes) = (TAMANHO_LOTE + 1) + 1

-----------------------------------------------------------------------------
(* What the delete of a substituir import leaves alone *)

\* the rows of a bag whose mes_ano is not m
ForaDaCompetencia(g, m) == [r \in {x \in DOMAIN g : x["mes_ano"] # m} |-> g[r]]

\* the step in which import p issues its delete call
C12_Passo ==
    \A p \in Procs :
        (Len(chamadas'[p]) = Len(chamadas[p]) + 1
         /\ chamadas'[p][Len(chamadas'[p])].op = "delete") =>
            LET c == chamadas'[p][Len(chamadas'[p])]
            IN  /\ req[p].substituir
                /\ chamadas[p] = <<>>
                /\ mes_ano[p] = extrair_mes_ano(df[p]).valor
                /\ df[p].linhas # <<>> => mes_ano[p] \in moda(df[p].linhas)
                /\ ~c.ok => gratificacoes' = gratificacoes
                /\ c.ok =>
                    /\ DaCompetencia(gratificacoes', mes_ano[p]) = EmptyBag
                    /\ c.n = Tamanho(DaCompetencia(gratificacoes, mes_ano[p]))
                    /\ \A r \in DOMAIN gratificacoes :
                        r["mes_ano"] # mes_ano[p] =>
                            /\ r \in DOMAIN gratificacoes'
                            /\ gratificacoes'[r] = gratificacoes[r]
                    /\ DOMAIN gratificacoes' \subseteq DOMAIN gratificacoes

\* the store after import q and then import p with substituir, every store
\* call of both successful: the rows q left of every mes_ano but p's, and all
\* the rows of p's file, those of another mes_ano too
C12_Depois ==
    \A p \in Procs : \A q \in Procs \ {p} :
        (Sequenciais(q, p) /\ Deletou(p) /\ respDel.n = 0) =>
            /\ gratificacoes =
                    ForaDaCompetencia(Registros(q), mes_ano[p]) (+) Registros(p)
            /\ \A m \in MesesPresentes(df[p]) \ {mes_ano[p]} :
                    DaCompetencia(gratificacoes, m) =
                        DaCompetencia(Registros(q), m) (+) DaCompetencia(Registros(p), m)

\* C12: the delete call of a substituir import removes the persisted rows
\* whose mes_ano is the one extrair_mes_ano returned, the most frequent among
\* the transformed rows of the file, and no other row: persisted rows of every
\* other mes_ano are left as they were.  The rows of the file with another
\* mes_ano are inserted all the same, so after the import the rows persisted
\* before it and the rows of the file coexist for that mes_ano.
C12_SoACompetenciaDominante == []C12_Depois /\ [][C12_Passo]_vars

\* misto.csv (two rows of 01, one row of 02) imported, then imported again
\* with substituir: the delete removed the two rows of 01 and left the row of
\* 02, which now stands beside the row of 02 of the second import
C12_Witness ==
    /\ Sequenciais(1, 2) /\ respDel.n = 0
    /\ req[1].arquivo.nome = "misto.csv" /\ req[2].arquivo.nome = "misto.csv"
    /\ req[2].substituir
    /\ mes_ano[2] = Jan
    /\ chamadas[2][1] = Chamada("delete", TRUE, 0, 2)
    /\ Tamanho(DaCompetencia(gratificacoes, Jan)) = 2
    /\ DaCompetencia(gratificacoes, Jan) = DaCompetencia(Registros(2), Jan)
    /\ Tamanho(DaCompetencia(gratificacoes, Fev)) = 2
    /\ DaCompetencia(Registros(1), Fev) \sqsubseteq gratificacoes
    /\ DaCompetencia(Registros(2), Fev) \sqsubseteq gratificacoes

=============================================================================
